---- MODULE Spec2Model ----
(***************************************************************************)
(* A model of the AI Cashflow Copilot analytical pipeline:                 *)
(*   categorize_transactions      (src/src/categorize.py)                  *)
(*   find_recurring_transactions  (src/src/recurring.py)                   *)
(*   apply_scenarios              (src/app.py)                             *)
(*   forecast_cashflow            (src/src/forecast.py)                    *)
(*                                                                         *)
(* Text is a sequence of one-character strings.  Money is an integer       *)
(* number of cents.  A calendar date is its day ordinal, day 0 being       *)
(* 1 January of EpochYear.  A value that pandas may hold as missing        *)
(* (NaT, NaN) is an option: <<>> when missing, <<v>> when present.         *)
(***************************************************************************)
EXTENDS Integers, Sequences, FiniteSets, TLC

VARIABLES
    pc,                     \* the next pipeline step to run
    df,                     \* the transaction table
    categorized,            \* result of categorize_transactions(df)
    min_count,              \* argument of find_recurring_transactions
    recurring_df,           \* result of find_recurring_transactions(df, min_count)
    reduce_ads_pct,         \* argument of apply_scenarios
    scenario_recurring_df,  \* result of apply_scenarios / recurring_df of the forecast
    starting_balance,       \* arguments of forecast_cashflow
    horizon_days,
    ma_window,
    delay_rent_days,
    invoice_earlier_days,
    recurring_adj,          \* the local recurring_adj of forecast_cashflow
    forecast_dict           \* result of forecast_cashflow

vars == <<pc, df, categorized, min_count, recurring_df, reduce_ads_pct,
          scenario_recurring_df, starting_balance, horizon_days, ma_window,
          delay_rent_days, invoice_earlier_days, recurring_adj, forecast_dict>>

(***************************************************************************)
(* Generic helpers                                                         *)
(***************************************************************************)
Missing == <<>>

Some(v) == <<v>>

IsPresent(o) == Len(o) = 1

Val(o) == o[1]

Abs(x) == IF x < 0 THEN -x ELSE x

SetMax(S) == CHOOSE x \in S : \A y \in S : y <= x

SetMin(S) == CHOOSE x \in S : \A y \in S : x <= y

RECURSIVE SeqSum(_)
SeqSum(s) == IF s = <<>> THEN 0 ELSE s[1] + SeqSum(Tail(s))

\* the sequence f with every element computed
AsSeq(f) == SubSeq(f, 1, Len(f))

(***************************************************************************)
(* Text                                                                    *)
(***************************************************************************)
LowerCase == <<"a","b","c","d","e","f","g","h","i","j","k","l","m",
               "n","o","p","q","r","s","t","u","v","w","x","y","z">>

UpperCase == <<"A","B","C","D","E","F","G","H","I","J","K","L","M",
               "N","O","P","Q","R","S","T","U","V","W","X","Y","Z">>

Digits == <<"0","1","2","3","4","5","6","7","8","9">>

Range(s) == { s[i] : i \in 1..Len(s) }

LowerSet == Range(LowerCase)

UpperSet == Range(UpperCase)

DigitSet == Range(Digits)

\* \w of the re module, on ASCII text
WordChars == LowerSet \cup UpperSet \cup DigitSet \cup {"_"}

\* \s of the re module, on the characters the model uses
SpaceChars == {" "}

LowerChar(c) ==
    IF c \in UpperSet
    THEN LowerCase[CHOOSE i \in 1..26 : UpperCase[i] = c]
    ELSE c

UpperChar(c) ==
    IF c \in LowerSet
    THEN UpperCase[CHOOSE i \in 1..26 : LowerCase[i] = c]
    ELSE c

\* str.lower()
Lower(s) == AsSeq([i \in 1..Len(s) |-> LowerChar(s[i])])

\* str.upper()
Upper(s) == AsSeq([i \in 1..Len(s) |-> UpperChar(s[i])])

\* sub occurs in s starting at position i
OccursAt(s, sub, i) ==
    /\ i >= 1
    /\ i + Len(sub) - 1 <= Len(s)
    /\ \A j \in 1..Len(sub) : s[i + j - 1] = sub[j]

\* the Python test `sub in s`
Contains(s, sub) == \E i \in 1..(Len(s) - Len(sub) + 1) : OccursAt(s, sub, i)

\* str.split(): the maximal runs of non-whitespace characters, in order
RECURSIVE SplitFrom(_, _, _)
SplitFrom(s, i, cur) ==
    IF i > Len(s)
    THEN IF cur = <<>> THEN <<>> ELSE <<cur>>
    ELSE IF s[i] \in SpaceChars
         THEN IF cur = <<>>
              THEN SplitFrom(s, i + 1, <<>>)
              ELSE <<cur>> \o SplitFrom(s, i + 1, <<>>)
         ELSE SplitFrom(s, i + 1, Append(cur, s[i]))

Split(s) == SplitFrom(s, 1, <<>>)

\* " ".join(tokens)
RECURSIVE Join(_)
Join(tokens) ==
    IF tokens = <<>> THEN <<>>
    ELSE IF Len(tokens) = 1 THEN tokens[1]
    ELSE tokens[1] \o <<" ">> \o Join(Tail(tokens))

(***************************************************************************)
(* A description cell of the table: text, or a number (a cell that is not  *)
(* text), or NaN (a missing cell, which pandas holds as a float).          *)
(***************************************************************************)
Text(chars) == [kind |-> "str", chars |-> chars]

NaNDesc == [kind |-> "nan", chars |-> <<"n","a","n">>]

Number(digits) == [kind |-> "num", chars |-> digits]

IsText(d) == d.kind = "str"

\* str(desc)
Str(d) == d.chars

(***************************************************************************)
(* categorize.py                                                           *)
(***************************************************************************)
\* each rule: the alternatives of its pattern (every one is \b<literal>\b)
\* and its label
CATEGORY_RULES == <<
    [alts |-> << <<"r","e","n","t">> >>,
     cat |-> "Rent"],
    [alts |-> << <<"p","a","y","r","o","l","l">>,
                 <<"g","u","s","t","o">> >>,
     cat |-> "Payroll"],
    [alts |-> << <<"s","t","r","i","p","e">>,
                 <<"s","q","u","a","r","e">>,
                 <<"p","r","o","c","e","s","s","i","n","g"," ","f","e","e">> >>,
     cat |-> "Payment Processing"],
    [alts |-> << <<"g","o","o","g","l","e"," ","a","d","s">>,
                 <<"m","e","t","a"," ","a","d","s">>,
                 <<"f","a","c","e","b","o","o","k"," ","a","d","s">> >>,
     cat |-> "Marketing"],
    [alts |-> << <<"a","w","s">>,
                 <<"a","m","a","z","o","n"," ","w","e","b"," ",
                   "s","e","r","v","i","c","e","s">>,
                 <<"c","l","o","u","d">> >>,
     cat |-> "Cloud/Hosting"],
    [alts |-> << <<"c","o","m","c","a","s","t">>,
                 <<"i","n","t","e","r","n","e","t">>,
                 <<"p","h","o","n","e">> >>,
     cat |-> "Utilities"],
    [alts |-> << <<"a","d","o","b","e">>,
                 <<"o","3","6","5">>,
                 <<"m","i","c","r","o","s","o","f","t">>,
                 <<"s","o","f","t","w","a","r","e">> >>,
     cat |-> "Software Subscriptions"],
    [alts |-> << <<"u","b","e","r">>,
                 <<"l","y","f","t">>,
                 <<"t","a","x","i">> >>,
     cat |-> "Travel"],
    [alts |-> << <<"o","f","f","i","c","e"," ","d","e","p","o","t">>,
                 <<"s","t","a","p","l","e","s">>,
                 <<"s","u","p","p","l","y">>,
                 <<"s","u","p","p","l","i","e","s">> >>,
     cat |-> "Office Supplies"],
    [alts |-> << <<"b","a","n","k"," ","f","e","e">>,
                 <<"s","e","r","v","i","c","e"," ","f","e","e">>,
                 <<"c","h","a","r","g","e">> >>,
     cat |-> "Bank Fees"],
    [alts |-> << <<"i","n","v","o","i","c","e">>,
                 <<"p","a","y","m","e","n","t">>,
                 <<"a","c","h">>,
                 <<"d","e","p","o","s","i","t">> >>,
     cat |-> "Revenue/Payments"] >>

\* re.sub(r"[^a-z0-9\s]", " ", s)
SubNonAlnum(s) ==
    AsSeq([i \in 1..Len(s) |->
             IF s[i] \in LowerSet \cup DigitSet \cup SpaceChars THEN s[i] ELSE " "])

\* re.sub(r"\s+", " ", s).strip()
CollapseStrip(s) == Join(Split(s))

FirstTokens(tokens, n) == SubSeq(tokens, 1, IF Len(tokens) < n THEN Len(tokens) ELSE n)

MerchantTokens == 4

_normalize_merchant(desc) ==
    LET s0 == Lower(Str(desc))
        s1 == SubNonAlnum(s0)
        s2 == CollapseStrip(s1)
    IN  Join(FirstTokens(Split(s2), MerchantTokens))

\* \b at the gap after position k of s (k = 0: before the first character)
IsWordAt(s, k) == k >= 1 /\ k <= Len(s) /\ s[k] \in WordChars

WordBoundary(s, k) == IsWordAt(s, k) # IsWordAt(s, k + 1)

\* re.search(r"\b<lit>\b", s)
SearchWord(s, lit) ==
    \E i \in 1..(Len(s) - Len(lit) + 1) :
        /\ OccursAt(s, lit, i)
        /\ WordBoundary(s, i - 1)
        /\ WordBoundary(s, i + Len(lit) - 1)

\* desc_lower.str.contains(pattern, regex=True, na=False) for one cell: a cell
\* that is not text lower-cases to NaN, which na=False turns into False
RuleMatches(rule, d) ==
    /\ IsText(d)
    /\ \E a \in 1..Len(rule.alts) : SearchWord(Lower(d.chars), rule.alts[a])

FirstMatchCategory(d) ==
    LET M == { k \in 1..Len(CATEGORY_RULES) : RuleMatches(CATEGORY_RULES[k], d) }
    IN  IF M = {} THEN "Other" ELSE CATEGORY_RULES[SetMin(M)].cat

\* the loop over CATEGORY_RULES: every matching rule overwrites the label
RECURSIVE CategoryLoop(_, _, _)
CategoryLoop(d, k, cat) ==
    IF k > Len(CATEGORY_RULES) THEN cat
    ELSE CategoryLoop(d, k + 1,
                      IF RuleMatches(CATEGORY_RULES[k], d)
                      THEN CATEGORY_RULES[k].cat ELSE cat)

CategoryOf(d) == CategoryLoop(d, 1, "Other")

\* The .str accessor of a column that holds no text at all (pandas reads a
\* column of numbers, or of missing cells only, as a numeric dtype) raises
\* AttributeError; a column with no rows, or with some text, is an object
\* column.
StrAccessorRaises(table) ==
    /\ Len(table) > 0
    /\ \A i \in 1..Len(table) : ~IsText(table[i].description)

categorize_transactions(table) ==
    IF StrAccessorRaises(table)
    THEN [raised |-> "AttributeError", rows |-> <<>>]
    ELSE [raised |-> "",
          rows |-> [i \in 1..Len(table) |->
                      [date        |-> table[i].date,
                       description |-> table[i].description,
                       amount      |-> table[i].amount,
                       merchant    |-> _normalize_merchant(table[i].description),
                       category    |-> CategoryOf(table[i].description)]]]

(***************************************************************************)
(* The categorize step of the pipeline, run on bounded tables              *)
(***************************************************************************)
NoCategorized == [raised |-> "", rows |-> <<>>]

NoForecast == [raised |-> "", current_balance |-> 0,
               metrics |-> [min_balance |-> Missing, days_to_negative |-> Missing],
               unit |-> 1, forecast_df |-> <<>>]

Row(date, description, amount) ==
    [date |-> date, description |-> description, amount |-> amount]

\* words and phrases descriptions are built from
Vocabulary == {
    <<"R","E","N","T">>,
    <<"P","a","r","e","n","t">>,
    <<"S","o","f","t","w","a","r","e">>,
    <<"B","a","n","k"," ","F","e","e">>,
    <<"G","o","o","g","l","e"," ","A","d","s">>,
    <<"I","N","V","O","I","C","E">>,
    <<"o","3","6","5">>,
    <<"I","n","c",".">> }

Separators == {<<" ">>, <<"_">>, <<"-">>}

\* longest description, in words
MaxWords == 2

RECURSIVE JoinWith(_, _)
JoinWith(ws, seps) ==
    IF Len(ws) = 1 THEN ws[1]
    ELSE ws[1] \o seps[1] \o JoinWith(Tail(ws), Tail(seps))

TextDescriptions ==
    { Text(<<>>) } \cup
    { Text(JoinWith(ws, seps)) :
        <<ws, seps>> \in UNION { [1..k -> Vocabulary] \X [1..(k - 1) -> Separators]
                                 : k \in 1..MaxWords } }

\* cells that are empty, missing, or not text
MalformedDescriptions == { Text(<<>>), NaNDesc, Number(<<"4","2">>) }

CategorizeTables ==
    { <<>> } \cup
    { << Row(Some(0), d, Some(-100)) >> :
        d \in TextDescriptions \cup MalformedDescriptions } \cup
    { << Row(Some(0), d, Some(-100)), Row(Some(1), m, Some(-100)) >> :
        <<d, m>> \in (TextDescriptions \cup MalformedDescriptions)
                     \X MalformedDescriptions }

InitCategorize ==
    /\ pc = "categorize"
    /\ df \in CategorizeTables
    /\ categorized = NoCategorized
    /\ min_count = 0
    /\ recurring_df = <<>>
    /\ reduce_ads_pct = 0
    /\ scenario_recurring_df = <<>>
    /\ starting_balance = 0
    /\ horizon_days = 0
    /\ ma_window = 0
    /\ delay_rent_days = 0
    /\ invoice_earlier_days = 0
    /\ recurring_adj = <<>>
    /\ forecast_dict = NoForecast

\* df = categorize_transactions(df)   (app.py)
Categorize ==
    /\ pc = "categorize"
    /\ categorized' = categorize_transactions(df)
    /\ pc' = "find_recurring"
    /\ UNCHANGED <<df, min_count, recurring_df, reduce_ads_pct,
                   scenario_recurring_df, starting_balance, horizon_days,
                   ma_window, delay_rent_days, invoice_earlier_days, recurring_adj,
                   forecast_dict>>

NextCategorize == Categorize

SpecCategorize == InitCategorize /\ [][NextCategorize]_vars

\* rows of the categorize result, with the description cell they came from
CategorizedRows == { i \in 1..Len(categorized.rows) : pc # "categorize" }

\* the rules a description matches
MatchingRules(d) ==
    { k \in 1..Len(CATEGORY_RULES) : RuleMatches(CATEGORY_RULES[k], d) }

\* C1: every categorized text description carries the label of the last rule
\* of CATEGORY_RULES that matches it, and "Other" when no rule matches.
C1_LastMatchWins ==
    \A i \in CategorizedRows :
        LET d == df[i].description
            M == MatchingRules(d)
        IN  IsText(d) =>
              categorized.rows[i].category =
                IF M = {} THEN "Other"
                ELSE CATEGORY_RULES[SetMax(M)].cat

\* a description matching both the software rule (7) and the bank-fee rule
\* (10) was categorized, and got "Bank Fees"
C1_Witness ==
    \E i \in CategorizedRows :
        /\ {7, 10} \subseteq MatchingRules(df[i].description)
        /\ categorized.rows[i].category = "Bank Fees"

\* C10: categorize raises no error, and every row whose description is empty,
\* missing or not text comes back with category "Other" and an empty merchant
\* key.
C10_MalformedDegradesGracefully ==
    pc # "categorize" =>
        /\ categorized.raised = ""
        /\ \A i \in 1..Len(df) :
              df[i].description \in MalformedDescriptions =>
                  /\ categorized.rows[i].category = "Other"
                  /\ categorized.rows[i].merchant = <<>>

(***************************************************************************)
(* Calendar: pandas Timestamps as day ordinals                             *)
(***************************************************************************)
\* the year of day ordinal 0
EpochYear == 2023

IsLeap(y) == (y % 4 = 0 /\ y % 100 # 0) \/ y % 400 = 0

\* calendar.monthrange(year, month)[1]
DaysInMonth(y, m) ==
    IF m = 2 THEN (IF IsLeap(y) THEN 29 ELSE 28)
    ELSE IF m \in {4, 6, 9, 11} THEN 30 ELSE 31

RECURSIVE YMDFrom(_, _, _)
YMDFrom(y, m, rest) ==
    IF rest < DaysInMonth(y, m)
    THEN [year |-> y, month |-> m, day |-> rest + 1]
    ELSE IF m = 12
         THEN YMDFrom(y + 1, 1, rest - DaysInMonth(y, m))
         ELSE YMDFrom(y, m + 1, rest - DaysInMonth(y, m))

\* the year, month and day of a day ordinal
YMD(o) == YMDFrom(EpochYear, 1, o)

RECURSIVE DaysBefore(_, _)
DaysBefore(y, m) ==
    IF y = EpochYear /\ m = 1 THEN 0
    ELSE IF m = 1
         THEN DaysBefore(y - 1, 12) + DaysInMonth(y - 1, 12)
         ELSE DaysBefore(y, m - 1) + DaysInMonth(y, m - 1)

\* pd.Timestamp(year=y, month=m, day=d)
Timestamp(y, m, d) == DaysBefore(y, m) + d - 1

\* dt.day
DayOfMonth(o) == YMD(o).day

\* dt.to_period("M"), as a number that orders the months
MonthPeriod(o) == YMD(o).year * 12 + (YMD(o).month - 1)

(***************************************************************************)
(* Sorting and medians                                                     *)
(***************************************************************************)
RECURSIVE InsertInt(_, _)
InsertInt(sorted, x) ==
    IF sorted = <<>> THEN <<x>>
    ELSE IF x < sorted[1] THEN <<x>> \o sorted
    ELSE <<sorted[1]>> \o InsertInt(Tail(sorted), x)

\* Series.sort_values() of numbers
RECURSIVE SortInts(_)
SortInts(s) ==
    IF s = <<>> THEN <<>> ELSE InsertInt(SortInts(Tail(s)), s[1])

\* twice Series.median() of a non-empty series: the median of an even
\* number of values is the mean of the two middle ones
Median2(s) ==
    LET t == SortInts(s)
        n == Len(t)
    IN  IF n % 2 = 1 THEN 2 * t[(n + 1) \div 2]
        ELSE t[n \div 2] + t[n \div 2 + 1]

\* the present values of a series of options (dropna)
RECURSIVE DropNa(_)
DropNa(s) ==
    IF s = <<>> THEN <<>>
    ELSE IF IsPresent(s[1]) THEN <<Val(s[1])>> \o DropNa(Tail(s))
    ELSE DropNa(Tail(s))

\* num/den rounded to the nearest integer, ties to the even one (numpy's
\* round); den > 0
RoundHalfEven(num, den) ==
    LET q == num \div den
        r == num % den
    IN  IF 2 * r < den THEN q
        ELSE IF 2 * r > den THEN q + 1
        ELSE IF q % 2 = 0 THEN q ELSE q + 1

(***************************************************************************)
(* recurring.py                                                            *)
(***************************************************************************)
AmountStabilityPct == 5

DomCloseDays == 6

DomCloseRatioPct == 60

WeeklyGapMin == 6

WeeklyGapMax == 8

MonthlyGapMin == 27

MonthlyGapMax == 33

\* ds.diff().dt.days.dropna() of sorted dates
Gaps(ds) == [i \in 1..(Len(ds) - 1) |-> ds[i + 1] - ds[i]]

StableAmountStrict(amts) ==
    LET n       == Len(amts)
        vals    == Range(amts)
        range   == SetMax(vals) - SetMin(vals)
        sum_abs == SeqSum([i \in 1..n |-> Abs(amts[i])])
    IN  IF sum_abs = 0
        THEN 100 * range < AmountStabilityPct
        ELSE 100 * range * n < AmountStabilityPct * sum_abs

\* (amt_range / amt_mean) <= 0.05, with amt_mean = 1.0 when the mean of the
\* absolute amounts is 0
StableAmount(amts) ==
    LET n       == Len(amts)
        vals    == Range(amts)
        range   == SetMax(vals) - SetMin(vals)
        sum_abs == SeqSum([i \in 1..n |-> Abs(amts[i])])
    IN  IF sum_abs = 0
        THEN 100 * range <= AmountStabilityPct
        ELSE 100 * range * n <= AmountStabilityPct * sum_abs

\* float(((dom - dom_med).abs() <= 6).mean()) >= 0.6
DomClose(ds) ==
    LET dom    == [i \in 1..Len(ds) |-> DayOfMonth(ds[i])]
        med2   == Median2(dom)
        close  == { i \in 1..Len(ds) : Abs(2 * dom[i] - med2) <= 2 * DomCloseDays }
    IN  100 * Cardinality(close) >= DomCloseRatioPct * Len(ds)

UniqueMonths(ds) == Cardinality({ MonthPeriod(ds[i]) : i \in 1..Len(ds) })

GapFrequency(ds) ==
    LET gaps == Gaps(ds)
        med2 == Median2(gaps)
    IN  IF 2 * WeeklyGapMin <= med2 /\ med2 <= 2 * WeeklyGapMax THEN "Weekly"
        ELSE IF 2 * MonthlyGapMin <= med2 /\ med2 <= 2 * MonthlyGapMax THEN "Monthly"
        ELSE "Irregular"

GapFirstFrequency(dates, amounts) ==
    LET ds   == SortInts(DropNa(dates))
        amts == DropNa(amounts)
    IN  IF Len(ds) < 2 THEN "Irregular"
        ELSE IF GapFrequency(ds) # "Irregular" THEN GapFrequency(ds)
        ELSE IF Len(amts) >= 2 /\ UniqueMonths(ds) >= 2 /\ StableAmount(amts)
             THEN "Monthly"
        ELSE IF UniqueMonths(ds) >= 2 /\ DomClose(ds) THEN "Monthly"
        ELSE "Irregular"

\* dates, amounts: series of options
_infer_frequency(dates, amounts) ==
    LET ds   == SortInts(DropNa(dates))
        amts == DropNa(amounts)
    IN  IF Len(ds) < 2 THEN "Irregular"
        ELSE IF Len(amts) >= 2 /\ UniqueMonths(ds) >= 2 /\ StableAmount(amts)
             THEN "Monthly"
        ELSE IF UniqueMonths(ds) >= 2 /\ DomClose(ds) THEN "Monthly"
        ELSE GapFrequency(ds)

HighCount == 5

MediumCount == 3

_confidence_from_count(count) ==
    IF count >= HighCount THEN "High"
    ELSE IF count >= MediumCount THEN "Medium"
    ELSE "Low"

\* the characters of the model in code-point order
AsciiOrder == <<" ", "-", ".">> \o Digits \o UpperCase \o <<"_">> \o LowerCase

CharCode(c) == CHOOSE i \in 1..Len(AsciiOrder) : AsciiOrder[i] = c

\* a < b for Python strings
RECURSIVE StrLess(_, _)
StrLess(a, b) ==
    IF b = <<>> THEN FALSE
    ELSE IF a = <<>> THEN TRUE
    ELSE IF a[1] = b[1] THEN StrLess(Tail(a), Tail(b))
    ELSE CharCode(a[1]) < CharCode(b[1])

\* the group keys in the order groupby("description") yields them (sorted)
RECURSIVE SortedKeys(_)
SortedKeys(keys) ==
    IF keys = {} THEN <<>>
    ELSE LET k == CHOOSE x \in keys :
                     \A y \in keys \ {x} : StrLess(x.chars, y.chars)
         IN  <<k>> \o SortedKeys(keys \ {k})

\* d.dropna(subset=["date", "description", "amount"])
RECURSIVE DropIncomplete(_)
DropIncomplete(table) ==
    IF table = <<>> THEN <<>>
    ELSE LET r == table[1]
         IN  IF IsPresent(r.date) /\ r.description.kind # "nan" /\ IsPresent(r.amount)
             THEN <<r>> \o DropIncomplete(Tail(table))
             ELSE DropIncomplete(Tail(table))

\* the rows of one group, in table order
RECURSIVE GroupRows(_, _)
GroupRows(table, key) ==
    IF table = <<>> THEN <<>>
    ELSE IF table[1].description = key
         THEN <<table[1]>> \o GroupRows(Tail(table), key)
         ELSE GroupRows(Tail(table), key)

\* one row of grouped.agg(...), with the frequency, the confidence and the
\* rounding of the later steps
Summarize(d, key) ==
    LET g     == GroupRows(d, key)
        amts  == [i \in 1..Len(g) |-> Val(g[i].amount)]
    IN  [description |-> key,
         count       |-> Len(g),
         avg_amount  |-> RoundHalfEven(SeqSum(amts), Len(g)),
         min_amount  |-> SetMin(Range(amts)),
         max_amount  |-> SetMax(Range(amts)),
         frequency   |-> _infer_frequency([i \in 1..Len(g) |-> g[i].date],
                                          [i \in 1..Len(g) |-> g[i].amount]),
         confidence  |-> _confidence_from_count(Len(g))]

RECURSIVE FilterCountAbove(_, _)
FilterCountAbove(summary, n) ==
    IF summary = <<>> THEN <<>>
    ELSE IF summary[1].count > n
         THEN <<summary[1]>> \o FilterCountAbove(Tail(summary), n)
         ELSE FilterCountAbove(Tail(summary), n)

\* summary[summary["count"] >= min_count]
RECURSIVE FilterCount(_, _)
FilterCount(summary, n) ==
    IF summary = <<>> THEN <<>>
    ELSE IF summary[1].count >= n
         THEN <<summary[1]>> \o FilterCount(Tail(summary), n)
         ELSE FilterCount(Tail(summary), n)

\* conf_order, with fillna(3)
ConfRank(c) ==
    IF c = "High" THEN 0 ELSE IF c = "Medium" THEN 1 ELSE IF c = "Low" THEN 2 ELSE 3

\* a sorts strictly before b under
\* sort_values(["_conf_rank", "_abs_avg"], ascending=[True, False])
AscendingAbsBefore(a, b) ==
    \/ ConfRank(a.confidence) < ConfRank(b.confidence)
    \/ /\ ConfRank(a.confidence) = ConfRank(b.confidence)
       /\ Abs(a.avg_amount) < Abs(b.avg_amount)

SortsBefore(a, b) ==
    \/ ConfRank(a.confidence) < ConfRank(b.confidence)
    \/ /\ ConfRank(a.confidence) = ConfRank(b.confidence)
       /\ Abs(a.avg_amount) > Abs(b.avg_amount)

RECURSIVE InsertRow(_, _)
InsertRow(sorted, x) ==
    IF sorted = <<>> THEN <<x>>
    ELSE IF SortsBefore(x, sorted[1]) THEN <<x>> \o sorted
    ELSE <<sorted[1]>> \o InsertRow(Tail(sorted), x)

\* the stable sort: rows with equal keys keep their order
RECURSIVE SortRows(_)
SortRows(rows) ==
    IF rows = <<>> THEN <<>>
    ELSE InsertRow(SortRows(SubSeq(rows, 1, Len(rows) - 1)), rows[Len(rows)])

find_recurring_transactions(table, n) ==
    IF table = <<>> THEN <<>>
    ELSE LET d       == DropIncomplete(table)
             keys    == SortedKeys({ d[i].description : i \in 1..Len(d) })
             summary == FilterCount([k \in 1..Len(keys) |-> Summarize(d, keys[k])], n)
         IN  SortRows(summary)

(***************************************************************************)
(* The recurring-detection step, run on bounded tables                     *)
(***************************************************************************)
\* most occurrences of one description
MaxOccurrences == 5

\* largest min_count
MaxMinCount == 3

RENT == Text(<<"R","E","N","T">>)

GOOGLE_ADS == Text(<<"G","o","o","g","l","e"," ","A","d","s">>)

INVOICE_ACME == Text(<<"I","N","V","O","I","C","E"," ","A","C","M","E">>)

\* c occurrences of a description, step days apart from start; every amount
\* is base but the last, which is base + delta; hole names the cell of the
\* first occurrence that is missing
Occurrences(desc, c, start, step, base, delta, hole) ==
    [i \in 1..c |->
        Row(IF hole = "date" /\ i = 1 THEN Missing ELSE Some(start + (i - 1) * step),
            IF hole = "description" /\ i = 1 THEN NaNDesc ELSE desc,
            IF hole = "amount" /\ i = 1 THEN Missing
            ELSE Some(base + (IF i = c THEN delta ELSE 0)))]

Holes == {"none", "date", "description", "amount"}

Steps == {7, 29, 40}

Starts == { Timestamp(EpochYear, 1, 3), Timestamp(EpochYear, 1, 28) }

\* <<base, delta>>: 1200.00 throughout; 1200.00 and 1215.00; 1200.00 and
\* 1500.00; 0.39 and 0.41 (exactly 5% of their mean apart)
AmountShapes == { <<-120000, 0>>, <<-120000, -1500>>, <<-120000, -30000>>, <<39, 2>> }

\* one description in many shapes beside a plain second one
ShapeTables ==
    { Occurrences(RENT, c1, start, step, shape[1], shape[2], hole)
        \o Occurrences(GOOGLE_ADS, c2, Timestamp(EpochYear, 1, 15), 30, a2, 0, "none") :
      <<c1, start, step, shape, hole, c2, a2>> \in
          (0..MaxOccurrences) \X Starts \X Steps \X AmountShapes \X Holes
          \X (0..MaxOccurrences) \X {-120000, 45000} }

\* three plain descriptions, interleaved by date, of every size
CountTables ==
    { Occurrences(INVOICE_ACME, c3, Timestamp(EpochYear, 1, 20), 30, a3, 0, "none")
        \o Occurrences(RENT, c1, Timestamp(EpochYear, 1, 1), 30, a1, 0, "none")
        \o Occurrences(GOOGLE_ADS, c2, Timestamp(EpochYear, 1, 15), 30, a2, 0, "none") :
      <<c1, a1, c2, a2, c3, a3>> \in
          (0..MaxOccurrences) \X {-120000, 120000}
          \X (0..MaxOccurrences) \X {-120000, 45000}
          \X (0..MaxOccurrences) \X {45000, -130000} }

RecurringTables == ShapeTables \cup CountTables

InitRecurring ==
    /\ pc = "find_recurring"
    /\ df \in RecurringTables
    /\ categorized = NoCategorized
    /\ min_count \in 1..MaxMinCount
    /\ recurring_df = <<>>
    /\ reduce_ads_pct = 0
    /\ scenario_recurring_df = <<>>
    /\ starting_balance = 0
    /\ horizon_days = 0
    /\ ma_window = 0
    /\ delay_rent_days = 0
    /\ invoice_earlier_days = 0
    /\ recurring_adj = <<>>
    /\ forecast_dict = NoForecast

\* recurring_df = find_recurring_transactions(df)   (app.py)
FindRecurring ==
    /\ pc = "find_recurring"
    /\ recurring_df' = find_recurring_transactions(df, min_count)
    /\ pc' = "apply_scenarios"
    /\ UNCHANGED <<df, categorized, min_count, reduce_ads_pct,
                   scenario_recurring_df, starting_balance, horizon_days,
                   ma_window, delay_rent_days, invoice_earlier_days, recurring_adj,
                   forecast_dict>>

NextRecurring == FindRecurring

SpecRecurring == InitRecurring /\ [][NextRecurring]_vars

RecurringDone == pc = "apply_scenarios"

\* the rows of df with the given description whose date, description and
\* amount are all present
CompleteRows(desc) ==
    { i \in 1..Len(df) :
        /\ df[i].description = desc
        /\ desc.kind # "nan"
        /\ IsPresent(df[i].date)
        /\ IsPresent(df[i].amount) }

InRecurring(desc) == \E k \in 1..Len(recurring_df) : recurring_df[k].description = desc

GroupDates(desc) == { Val(df[i].date) : i \in CompleteRows(desc) }

GroupAmountSum(desc) ==
    LET idx == CompleteRows(desc)
        RECURSIVE Sum(_)
        Sum(S) == IF S = {} THEN 0
                  ELSE LET i == CHOOSE i \in S : TRUE
                       IN  Abs(Val(df[i].amount)) + Sum(S \ {i})
    IN  Sum(idx)

GroupAmounts(desc) == { Val(df[i].amount) : i \in CompleteRows(desc) }

\* (max - min) / mean(|amount|) <= 0.05
WithinFivePercent(desc) ==
    /\ GroupAmountSum(desc) > 0
    /\ 20 * (SetMax(GroupAmounts(desc)) - SetMin(GroupAmounts(desc)))
          * Cardinality(CompleteRows(desc)) <= GroupAmountSum(desc)

SpansTwoMonths(desc) ==
    \E x, y \in GroupDates(desc) : MonthPeriod(x) # MonthPeriod(y)

\* C3: a group of at least 2 dated occurrences in at least 2 distinct months
\* whose amounts lie within 5% of their mean absolute value is Monthly,
\* whatever its days of month and gaps.
C3_AmountStabilityOverride ==
    RecurringDone =>
        \A k \in 1..Len(recurring_df) :
            LET desc == recurring_df[k].description
            IN  ( /\ Cardinality(CompleteRows(desc)) >= 2
                  /\ SpansTwoMonths(desc)
                  /\ WithinFivePercent(desc) )
                => recurring_df[k].frequency = "Monthly"

\* amounts -1200.00, -1200.00, -1215.00 on 3 January, 12 February and
\* 24 March: no day of month is within 6 days of another, the gaps are 40
\* days, and the group is Monthly
C3_Witness ==
    /\ RecurringDone
    /\ \E k \in 1..Len(recurring_df) :
          LET desc == recurring_df[k].description
          IN  /\ recurring_df[k].count = 3
              /\ GroupAmounts(desc) = {-120000, -121500}
              /\ GroupDates(desc) = { Timestamp(EpochYear, 1, 3),
                                      Timestamp(EpochYear, 2, 12),
                                      Timestamp(EpochYear, 3, 24) }
              /\ recurring_df[k].frequency = "Monthly"

\* the dates of a result row's group in ascending order, one per row
GroupDateSeq(desc) ==
    LET InGroup(row) == /\ row.description = desc /\ desc.kind # "nan"
                        /\ IsPresent(row.date) /\ IsPresent(row.amount)
        rows == SelectSeq(df, InGroup)
    IN  SortInts([i \in 1..Len(rows) |-> Val(rows[i].date)])

\* the amount-stability rule: the group spans 2 months and its amounts lie
\* within 5% of their mean absolute value (of 1 when that mean is 0)
StabilityRule(desc) ==
    /\ SpansTwoMonths(desc)
    /\ \/ WithinFivePercent(desc)
       \/ GroupAmounts(desc) = {0}

\* the day-of-month rule: the group spans 2 months and at least 60% of its
\* occurrences have a day of month within 6 days of the median day of month
DayOfMonthRule(desc) ==
    LET ds   == GroupDateSeq(desc)
        days == [i \in 1..Len(ds) |-> DayOfMonth(ds[i])]
        near == { i \in 1..Len(ds) : Abs(2 * days[i] - Median2(days)) <= 12 }
    IN  /\ SpansTwoMonths(desc)
        /\ 10 * Cardinality(near) >= 6 * Len(ds)

\* twice the median gap in days between consecutive dates of the group
MedianGap2(desc) ==
    LET ds == GroupDateSeq(desc)
    IN  Median2([i \in 1..(Len(ds) - 1) |-> ds[i + 1] - ds[i]])

\* the frequency the ordered chain of rules gives a group
ChainFrequency(desc) ==
    IF Len(GroupDateSeq(desc)) < 2 THEN "Irregular"
    ELSE IF StabilityRule(desc) THEN "Monthly"
    ELSE IF DayOfMonthRule(desc) THEN "Monthly"
    ELSE IF 12 <= MedianGap2(desc) /\ MedianGap2(desc) <= 16 THEN "Weekly"
    ELSE IF 54 <= MedianGap2(desc) /\ MedianGap2(desc) <= 66 THEN "Monthly"
    ELSE "Irregular"

\* C12: the frequency of a result row is the first success of the chain: fewer
\* than 2 dated occurrences Irregular; the amount-stability rule, then the
\* day-of-month rule, Monthly; else a median gap of 6 to 8 days Weekly, of 27
\* to 33 days Monthly, anything else Irregular.  A Weekly group fails both
\* Monthly rules.
C12_FrequencyChain ==
    RecurringDone =>
        \A k \in 1..Len(recurring_df) :
            LET desc == recurring_df[k].description
            IN  /\ recurring_df[k].frequency = ChainFrequency(desc)
                /\ recurring_df[k].frequency = "Weekly"
                      => ~StabilityRule(desc) /\ ~DayOfMonthRule(desc)

\* the row of the result for a description
ResultRow(desc) == CHOOSE k \in 1..Len(recurring_df) : recurring_df[k].description = desc

\* a result with a group 7 days apart over two months that fails both Monthly
\* rules and is Weekly, beside a group Monthly by its stable amounts
C12_Witness ==
    /\ RecurringDone
    /\ InRecurring(RENT) /\ InRecurring(GOOGLE_ADS)
    /\ SpansTwoMonths(RENT)
    /\ ~StabilityRule(RENT) /\ ~DayOfMonthRule(RENT)
    /\ MedianGap2(RENT) = 14
    /\ recurring_df[ResultRow(RENT)].frequency = "Weekly"
    /\ StabilityRule(GOOGLE_ADS)
    /\ recurring_df[ResultRow(GOOGLE_ADS)].frequency = "Monthly"

\* the other ends of the chain: a lone occurrence; Monthly by the
\* day-of-month rule alone; Monthly and Irregular by the median gap; a
\* group 7 days apart that a Monthly rule claims first
C12_LoneOccurrence ==
    /\ RecurringDone /\ InRecurring(RENT)
    /\ Len(GroupDateSeq(RENT)) = 1
    /\ recurring_df[ResultRow(RENT)].frequency = "Irregular"

C12_MonthlyByDay ==
    /\ RecurringDone /\ InRecurring(RENT)
    /\ ~StabilityRule(RENT) /\ DayOfMonthRule(RENT)
    /\ recurring_df[ResultRow(RENT)].frequency = "Monthly"

C12_MonthlyByGap ==
    /\ RecurringDone /\ InRecurring(RENT)
    /\ Len(GroupDateSeq(RENT)) >= 2
    /\ ~StabilityRule(RENT) /\ ~DayOfMonthRule(RENT)
    /\ recurring_df[ResultRow(RENT)].frequency = "Monthly"

C12_IrregularByGap ==
    /\ RecurringDone /\ InRecurring(RENT)
    /\ Len(GroupDateSeq(RENT)) >= 2
    /\ recurring_df[ResultRow(RENT)].frequency = "Irregular"

C12_WeeklyGapButMonthly ==
    /\ RecurringDone /\ InRecurring(RENT)
    /\ MedianGap2(RENT) = 14
    /\ recurring_df[ResultRow(RENT)].frequency = "Monthly"

\* C4: confidence is High from 5 occurrences, Medium from 3, Low below; of
\* two consecutive result rows the first has the stricter tier, or the same
\* tier and an absolute avg_amount at least the second's.
C4_ResultOrder ==
    RecurringDone =>
        /\ \A k \in 1..Len(recurring_df) :
              recurring_df[k].confidence =
                  IF recurring_df[k].count >= 5 THEN "High"
                  ELSE IF recurring_df[k].count >= 3 THEN "Medium"
                  ELSE "Low"
        /\ \A k \in 1..(Len(recurring_df) - 1) :
              LET a == recurring_df[k]
                  b == recurring_df[k + 1]
                  tier(r) == CASE r.confidence = "High" -> 1
                               [] r.confidence = "Medium" -> 2
                               [] r.confidence = "Low" -> 3
              IN  \/ tier(a) < tier(b)
                  \/ tier(a) = tier(b) /\ Abs(a.avg_amount) >= Abs(b.avg_amount)

\* a result of three rows, of two tiers, whose two rows of one tier differ in
\* absolute avg_amount
C4_Witness ==
    /\ RecurringDone
    /\ Len(recurring_df) = 3
    /\ recurring_df[1].confidence = "High"
    /\ recurring_df[2].confidence = "Medium"
    /\ recurring_df[3].confidence = "Medium"
    /\ Abs(recurring_df[2].avg_amount) > Abs(recurring_df[3].avg_amount)

(***************************************************************************)
(* app.py: apply_scenarios                                                 *)
(***************************************************************************)
GOOGLE_ADS_PATTERN == <<"G","O","O","G","L","E"," ","A","D","S">>

ContainsCaseSensitive(d, pat) == IsText(d) /\ Contains(d.chars, pat)

\* Series.str.contains(pat, case=False, na=False) for one cell, pat a
\* literal: the match ignores the case of both sides
ContainsIgnoreCase(d, pat) == IsText(d) /\ Contains(Lower(d.chars), Lower(pat))

\* avg_amount * (1 - reduce_ads_pct / 100.0); exact on the tables of the
\* model, whose averages are whole dollars
ReducedAmount(avg_amount, pct) == (avg_amount * (100 - pct)) \div 100

apply_scenarios(table, pct) ==
    IF table = <<>> THEN table
    ELSE IF pct > 0
         THEN [k \in 1..Len(table) |->
                 IF ContainsIgnoreCase(table[k].description, GOOGLE_ADS_PATTERN)
                 THEN [table[k] EXCEPT !.avg_amount = ReducedAmount(@, pct)]
                 ELSE table[k]]
         ELSE table

(***************************************************************************)
(* The scenario step, run on bounded recurring tables                      *)
(***************************************************************************)
\* most rows of a recurring table handed to apply_scenarios
MaxScenarioRows == 2

ScenarioDescriptions == {
    Text(<<"G","O","O","G","L","E"," ","A","D","S">>),
    Text(<<"G","o","o","g","l","e"," ","A","d","s">>),
    Text(<<"g","o","o","g","l","e"," ","a","d","s","e","n","s","e">>),
    Text(<<"P","A","Y"," ","G","o","O","g","L","e"," ","a","D","s"," ","Q","1">>),
    Text(<<"G","O","O","G","L","E","-","A","D","S">>),
    Text(<<"G","O","O","G","L","E","A","D","S">>),
    RENT }

RecurringRow(desc, avg) ==
    [description |-> desc, count |-> 3, avg_amount |-> avg,
     min_amount |-> avg - 100, max_amount |-> avg + 100,
     frequency |-> "Monthly", confidence |-> "Medium"]

ScenarioRows ==
    { RecurringRow(d, a) : <<d, a>> \in ScenarioDescriptions \X {-100000, -45000, 20000} }

ScenarioTables == UNION { [1..n -> ScenarioRows] : n \in 0..MaxScenarioRows }

\* the slider runs from 0 to 80 in steps of 5
AdsPercents == {0, 5, 20, 80}

InitScenario ==
    /\ pc = "apply_scenarios"
    /\ df = <<>>
    /\ categorized = NoCategorized
    /\ min_count = 0
    /\ recurring_df \in ScenarioTables
    /\ reduce_ads_pct \in AdsPercents
    /\ scenario_recurring_df = <<>>
    /\ starting_balance = 0
    /\ horizon_days = 0
    /\ ma_window = 0
    /\ delay_rent_days = 0
    /\ invoice_earlier_days = 0
    /\ recurring_adj = <<>>
    /\ forecast_dict = NoForecast

\* scenario_recurring_df = apply_scenarios(recurring_df, reduce_ads_pct)
ApplyScenarios ==
    /\ pc = "apply_scenarios"
    /\ scenario_recurring_df' = apply_scenarios(recurring_df, reduce_ads_pct)
    /\ pc' = "forecast"
    /\ UNCHANGED <<df, categorized, min_count, recurring_df, reduce_ads_pct,
                   starting_balance, horizon_days, ma_window, delay_rent_days,
                   invoice_earlier_days, recurring_adj, forecast_dict>>

NextScenario == ApplyScenarios

SpecScenario == InitScenario /\ [][NextScenario]_vars

\* the description, upper-cased, holds GOOGLE ADS somewhere
MentionsGoogleAds(desc) ==
    \E i \in 1..Len(desc.chars) :
        /\ i + 9 <= Len(desc.chars)
        /\ [j \in 1..10 |-> UpperChar(desc.chars[i + j - 1])] = GOOGLE_ADS_PATTERN

\* C7: apply_scenarios leaves its input as it was; in its result every row
\* whose description contains GOOGLE ADS, in any case, has the input's
\* avg_amount times (1 - p/100) and is otherwise the input row, every other
\* row is the input row, and with p = 0 the result equals the input.
C7_AdsReduction ==
    [][ pc = "apply_scenarios" =>
          /\ recurring_df' = recurring_df
          /\ Len(scenario_recurring_df') = Len(recurring_df)
          /\ \A k \in 1..Len(recurring_df) :
                LET in  == recurring_df[k]
                    out == scenario_recurring_df'[k]
                IN  /\ [out EXCEPT !.avg_amount = 0] = [in EXCEPT !.avg_amount = 0]
                    /\ IF MentionsGoogleAds(in.description)
                       THEN 100 * out.avg_amount = in.avg_amount * (100 - reduce_ads_pct)
                       ELSE out.avg_amount = in.avg_amount
          /\ (reduce_ads_pct = 0 => scenario_recurring_df' = recurring_df)
      ]_vars

\* a table with a mixed-case Google Ads row of -1000.00 and a RENT row went
\* through apply_scenarios with p = 20: the first is -800.00, the second as
\* it was
C7_Witness ==
    /\ pc = "forecast"
    /\ reduce_ads_pct = 20
    /\ Len(recurring_df) = 2
    /\ recurring_df[1].description = GOOGLE_ADS
    /\ recurring_df[1].avg_amount = -100000
    /\ scenario_recurring_df[1].avg_amount = -80000
    /\ recurring_df[2].description = RENT
    /\ scenario_recurring_df[2] = recurring_df[2]

(***************************************************************************)
(* forecast.py                                                             *)
(***************************************************************************)
\* the dates of the table that are present
PresentDates(table) ==
    { Val(table[i].date) : i \in { j \in 1..Len(table) : IsPresent(table[j].date) } }

\* sum of the amounts dated o (a missing amount adds nothing)
RECURSIVE DaySum(_, _)
DaySum(table, o) ==
    IF table = <<>> THEN 0
    ELSE (IF table[1].date = Some(o) /\ IsPresent(table[1].amount)
          THEN Val(table[1].amount) ELSE 0)
         + DaySum(Tail(table), o)

\* the daily net flow from the first to the last date of the table, days
\* without a transaction filled with 0; empty when no row has a date
_daily_net_flow(table) ==
    IF PresentDates(table) = {} THEN <<>>
    ELSE LET first == SetMin(PresentDates(table))
             last  == SetMax(PresentDates(table))
         IN  AsSeq([i \in 1..(last - first + 1) |-> DaySum(table, first + i - 1)])

RolledDomDate(year, month, day) == Timestamp(year, month, day)

\* the day of month clamped to 1..last day of the month
_safe_dom_date(year, month, day) ==
    LET last_day == DaysInMonth(year, month)
        lo       == IF day < 1 THEN 1 ELSE day
        clamped  == IF lo > last_day THEN last_day ELSE lo
    IN  Timestamp(year, month, clamped)

\* a recurring table has a frequency column unless its rows say "(none)"
NoColumn == "(none)"

HasFrequencyColumn(table) == \A k \in 1..Len(table) : table[k].frequency # NoColumn

RECURSIVE SelectMonthly(_)
SelectMonthly(table) ==
    IF table = <<>> THEN <<>>
    ELSE IF table[1].frequency = "Monthly"
         THEN <<table[1]>> \o SelectMonthly(Tail(table))
         ELSE SelectMonthly(Tail(table))

\* the rows that are scheduled
MonthlyRows(table) ==
    IF HasFrequencyColumn(table) THEN SelectMonthly(table) ELSE table

\* hist = df[df["description"] == desc], its dates
HistDates(table, desc) ==
    LET idx == { i \in 1..Len(table) : table[i].description = desc }
    IN  [present |-> { Val(table[i].date) : i \in { j \in idx : IsPresent(table[j].date) } },
         rows    |-> idx]

\* the days of month of the rows of desc that have a date, as a series
RECURSIVE HistDays(_, _)
HistDays(table, desc) ==
    IF table = <<>> THEN <<>>
    ELSE (IF table[1].description = desc /\ IsPresent(table[1].date)
          THEN <<DayOfMonth(Val(table[1].date))>> ELSE <<>>)
         \o HistDays(Tail(table), desc)

\* int(median) of a description with rows but no dated row fails
DomRaises(table, monthly) ==
    \E k \in 1..Len(monthly) :
        LET h == HistDates(table, monthly[k].description)
        IN  h.rows # {} /\ h.present = {}

DefaultDom == 1

\* dom_map.get(desc, 1), with dom_map[desc] = int(median of the days of month)
DomOf(table, desc) ==
    IF HistDates(table, desc).rows = {} THEN DefaultDom
    ELSE Median2(HistDays(table, desc)) \div 2

RENT_WORD == <<"R","E","N","T">>

INVOICE_WORD == <<"I","N","V","O","I","C","E">>

UnshiftedOccurrenceDate(desc, dom, p, delay, earlier) ==
    _safe_dom_date(p \div 12, (p % 12) + 1, dom)

\* the date one occurrence lands on: the day of month in month p, clamped,
\* then the scenario shifts
OccurrenceDate(desc, dom, p, delay, earlier) ==
    LET dt0 == _safe_dom_date(p \div 12, (p % 12) + 1, dom)
        dt1 == IF Contains(Upper(Str(desc)), RENT_WORD) /\ delay > 0
               THEN dt0 + delay ELSE dt0
    IN  IF Contains(Upper(Str(desc)), INVOICE_WORD) /\ earlier > 0
        THEN dt1 - earlier ELSE dt1

\* the dates the occurrences of every scheduled row land on, month by month
Placements(table, monthly, months, delay, earlier) ==
    AsSeq([r \in 1..Len(monthly) |->
             LET dom == DomOf(table, monthly[r].description)
             IN  { <<p, OccurrenceDate(monthly[r].description, dom, p, delay, earlier)>> :
                     p \in months }])

\* what the scheduled rows add on date o: adj.loc[dt] += amt for every
\* occurrence with dt = o
RECURSIVE Landing(_, _, _, _)
Landing(monthly, placed, r, o) ==
    IF r > Len(monthly) THEN 0
    ELSE Cardinality({ occ \in placed[r] : occ[2] = o }) * monthly[r].avg_amount
         + Landing(monthly, placed, r + 1, o)

ScheduleFollowingMonth(table, recurring, future_dates, delay, earlier) ==
    LET monthly == MonthlyRows(recurring)
        start   == future_dates[1]
        end     == future_dates[Len(future_dates)]
        months  == MonthPeriod(start)..(MonthPeriod(end) + 1)
        placed  == Placements(table, monthly, months, delay, earlier)
    IN  IF recurring = <<>> \/ monthly = <<>>
        THEN AsSeq([k \in 1..Len(future_dates) |-> 0])
        ELSE AsSeq([k \in 1..Len(future_dates) |->
                       Landing(monthly, placed, 1, future_dates[k])])

\* future_dates: a non-empty run of consecutive days
_schedule_monthly_items(table, recurring, future_dates, delay, earlier) ==
    LET monthly == MonthlyRows(recurring)
        start   == future_dates[1]
        end     == future_dates[Len(future_dates)]
        months  == MonthPeriod(start)..MonthPeriod(end)
        placed  == Placements(table, monthly, months, delay, earlier)
    IN  IF recurring = <<>> \/ monthly = <<>>
        THEN AsSeq([k \in 1..Len(future_dates) |-> 0])
        ELSE AsSeq([k \in 1..Len(future_dates) |->
                       Landing(monthly, placed, 1, future_dates[k])])

\* pd.date_range(last_day + 1 day, periods=horizon_days, freq="D")
FutureDates(last_day, horizon) == AsSeq([k \in 1..horizon |-> last_day + k])

\* base as a fraction: the mean of the last ma_window days of flow, or of
\* all of flow when it has fewer than ma_window days
Base(flow, window) ==
    IF Len(flow) >= window
    THEN [num |-> SeqSum(SubSeq(flow, Len(flow) - window + 1, Len(flow))),
          den |-> window]
    ELSE [num |-> SeqSum(flow), den |-> Len(flow)]

ShiftedCumSum(s) ==
    AsSeq([k \in 1..Len(s) |-> SeqSum(SubSeq(s, 1, k - 1))])

\* Series.cumsum()
RECURSIVE CumSum(_)
CumSum(s) ==
    IF s = <<>> THEN <<>>
    ELSE LET head == CumSum(SubSeq(s, 1, Len(s) - 1))
         IN  Append(head, (IF head = <<>> THEN 0 ELSE head[Len(head)]) + s[Len(s)])

\* current_balance + predicted_net.cumsum(), in units of 1/den cent
PredictedBalance(balance, den, predicted_net) ==
    LET cum == CumSum(predicted_net)
    IN  AsSeq([k \in 1..Len(predicted_net) |-> den * balance + cum[k]])

NonPositiveDays(predicted_balance) ==
    { k \in 1..Len(predicted_balance) : predicted_balance[k] <= 0 }

\* forecast_df[forecast_df["predicted_balance"] < 0], as row numbers
NegativeDays(predicted_balance) ==
    { k \in 1..Len(predicted_balance) : predicted_balance[k] < 0 }

EmptyForecastZeroBalance(balance) ==
    [raised |-> "", current_balance |-> 0,
     metrics |-> [min_balance |-> Missing, days_to_negative |-> Missing],
     unit |-> 1, forecast_df |-> <<>>]

\* the result for an empty table
EmptyForecast(balance) ==
    [raised |-> "", current_balance |-> balance,
     metrics |-> [min_balance |-> Missing, days_to_negative |-> Missing],
     unit |-> 1, forecast_df |-> <<>>]

\* date_range of a NaT last_day, or int() of a NaN median
Raised == [NoForecast EXCEPT !.raised = "ValueError"]

\* the result of forecast_cashflow and its local recurring_adj.  Amounts of
\* forecast_df are in units of 1/unit cent (unit is the denominator of
\* base); current_balance and min_balance are in cents.
forecast_cashflow(table, balance, horizon, window, recurring, delay, earlier) ==
    IF table = <<>>
    THEN [adj |-> <<>>, result |-> EmptyForecast(balance)]
    ELSE IF PresentDates(table) = {}
    THEN [adj |-> <<>>, result |-> Raised]
    ELSE IF DomRaises(table, MonthlyRows(recurring))
    THEN [adj |-> <<>>, result |-> Raised]
    ELSE
    LET flow          == _daily_net_flow(table)
        last_day      == SetMax(PresentDates(table))
        future_dates  == FutureDates(last_day, horizon)
        base          == Base(flow, window)
        adj           == _schedule_monthly_items(table, recurring, future_dates,
                                                 delay, earlier)
        predicted_net == AsSeq([k \in 1..horizon |-> base.num + base.den * adj[k]])
        predicted_balance == PredictedBalance(balance, base.den, predicted_net)
        neg           == NegativeDays(predicted_balance)
    IN  [adj |-> adj,
         result |->
           [raised |-> "",
            current_balance |-> balance,
            metrics |->
              [min_balance |-> Some(RoundHalfEven(SetMin(Range(predicted_balance)),
                                                  base.den)),
               days_to_negative |->
                  IF neg = {} THEN Missing
                  ELSE Some(future_dates[SetMin(neg)] - future_dates[1])],
            unit |-> base.den,
            forecast_df |-> AsSeq([k \in 1..horizon |->
                               [date |-> future_dates[k],
                                predicted_net |-> predicted_net[k],
                                predicted_balance |-> predicted_balance[k]]])]]

(***************************************************************************)
(* The forecast step, run on bounded histories and recurring tables        *)
(***************************************************************************)
\* most rows of one description in a history
MaxHistory == 2

\* the longest forecast horizon, in days
MaxHorizon == 40

ACME_DEPOSIT == Text(<<"A","C","M","E"," ","d","e","p","o","s","i","t">>)

PARENT_CO == Text(<<"P","a","r","e","n","t"," ","C","o">>)

\* RENT on the 1st or from the 31st on, once a month, beside ACME rows on
\* consecutive days that end the history in January, February or December
ForecastHistories ==
    { Occurrences(RENT, c1, start1, 31, -120000, 0, hole)
        \o Occurrences(ACME_DEPOSIT, c2, start2, 1, a2, 0, "none") :
      <<c1, start1, hole, c2, start2, a2>> \in
          (0..MaxHistory)
          \X { Timestamp(EpochYear, 1, 1), Timestamp(EpochYear, 1, 31) }
          \X {"none", "date"}
          \X {0, MaxHistory}
          \X { Timestamp(EpochYear, 1, 30), Timestamp(EpochYear, 2, 27),
               Timestamp(EpochYear, 12, 30) }
          \X {-5000, 100} }

Item(desc, avg, freq) == [RecurringRow(desc, avg) EXCEPT !.frequency = freq]

\* a recurring table of a RENT row, an INVOICE row, both or neither, with or
\* without a frequency column
ItemTable(rentFreq, invoiceFreq, column) ==
    (IF rentFreq = "-" THEN <<>>
     ELSE <<Item(RENT, -120000, IF column THEN rentFreq ELSE NoColumn)>>)
    \o
    (IF invoiceFreq = "-" THEN <<>>
     ELSE <<Item(INVOICE_ACME, 250000, IF column THEN invoiceFreq ELSE NoColumn)>>)

ForecastRecurringTables ==
    { ItemTable(r, v, c) :
        <<r, v, c>> \in {"-", "Monthly", "Weekly"} \X {"-", "Monthly"} \X BOOLEAN }
    \cup { <<Item(PARENT_CO, -30000, "Monthly"), Item(GOOGLE_ADS, -45000, "Irregular")>>,
           <<Item(ACME_DEPOSIT, 50000, "Monthly")>> }

InitForecast ==
    /\ pc = "forecast"
    /\ df \in ForecastHistories
    /\ categorized = NoCategorized
    /\ min_count = 0
    /\ recurring_df = <<>>
    /\ reduce_ads_pct = 0
    /\ scenario_recurring_df \in ForecastRecurringTables
    /\ starting_balance \in {0, 10000}
    /\ horizon_days \in {1, 3, 28, MaxHorizon}
    /\ ma_window \in {1, 14}
    /\ delay_rent_days \in {0, 5}
    /\ invoice_earlier_days \in {0, 3}
    /\ recurring_adj = <<>>
    /\ forecast_dict = NoForecast

\* forecast_dict = forecast_cashflow(df, ...)   (app.py)
Forecast ==
    /\ pc = "forecast"
    /\ LET r == forecast_cashflow(df, starting_balance, horizon_days, ma_window,
                                  scenario_recurring_df, delay_rent_days,
                                  invoice_earlier_days)
       IN  /\ forecast_dict' = r.result
           /\ recurring_adj' = r.adj
    /\ pc' = "done"
    /\ UNCHANGED <<df, categorized, min_count, recurring_df, reduce_ads_pct,
                   scenario_recurring_df, starting_balance, horizon_days,
                   ma_window, delay_rent_days, invoice_earlier_days>>

NextForecast == Forecast

SpecForecast == InitForecast /\ [][NextForecast]_vars

\* forecast_cashflow returned a projection
Forecasted == pc = "done" /\ forecast_dict.raised = "" /\ df # <<>>

ForecastRows == 1..Len(forecast_dict.forecast_df)

\* C5: the predicted balance of the k-th forecast day is the starting
\* balance plus the predicted net of days 1..k; when the predicted net is the
\* same n every day, it is the starting balance plus k times n.
C5_BalanceIsCumulativeNet ==
    Forecasted =>
        LET f    == forecast_dict.forecast_df
            unit == forecast_dict.unit
        IN  /\ Len(f) = horizon_days
            /\ \A k \in ForecastRows :
                  f[k].predicted_balance =
                      unit * starting_balance
                      + SeqSum([j \in 1..k |-> f[j].predicted_net])
            /\ (\A k \in ForecastRows : f[k].predicted_net = f[1].predicted_net)
                  => \A k \in ForecastRows :
                        f[k].predicted_balance =
                            unit * starting_balance + k * f[1].predicted_net

\* a forecast over MaxHorizon days from 100.00 with -50.00 every day: the
\* balance is 50.00 after day 1 and 100.00 - MaxHorizon * 50.00 after the last
C5_Witness ==
    /\ Forecasted
    /\ horizon_days = MaxHorizon
    /\ starting_balance = 10000
    /\ forecast_dict.unit = 1
    /\ \A k \in ForecastRows : forecast_dict.forecast_df[k].predicted_net = -5000
    /\ forecast_dict.forecast_df[1].predicted_balance = 5000
    /\ forecast_dict.forecast_df[MaxHorizon].predicted_balance = 10000 - MaxHorizon * 5000

\* the row numbers of the projection whose balance is below 0
BelowZero ==
    { k \in ForecastRows : forecast_dict.forecast_df[k].predicted_balance < 0 }

\* the least predicted balance, in units of 1/unit cent
LeastBalance ==
    SetMin({ forecast_dict.forecast_df[k].predicted_balance : k \in ForecastRows })

\* days_to_negative is the zero-based offset of the first forecast day whose
\* balance is below 0, and is absent when there is none
DaysToNegativeIsFirstBelowZero ==
    LET m == forecast_dict.metrics
    IN  IF BelowZero = {} THEN m.days_to_negative = Missing
        ELSE m.days_to_negative = Some(SetMin(BelowZero) - 1)

\* from 100.00 with -50.00 every day: days_to_negative is 2 once the horizon
\* reaches the third day, and min_balance is 100.00 - 50.00 * horizon_days
FiftyADayExample ==
    ( /\ starting_balance = 10000
      /\ forecast_dict.unit = 1
      /\ \A k \in ForecastRows : forecast_dict.forecast_df[k].predicted_net = -5000 )
    => /\ horizon_days >= 3 => forecast_dict.metrics.days_to_negative = Some(2)
       /\ forecast_dict.metrics.min_balance = Some(10000 - 5000 * horizon_days)

\* C6 as stated: min_balance is the minimum of the predicted balances.
C6_MinBalanceIsExactMinimum ==
    Forecasted =>
        /\ DaysToNegativeIsFirstBelowZero
        /\ forecast_dict.unit * Val(forecast_dict.metrics.min_balance) = LeastBalance
        /\ FiftyADayExample

\* C6, amended: min_balance is the minimum of the predicted balances rounded
\* to 2 decimal places (the nearest cent, ties to the even cent).
C6_RiskMetrics ==
    Forecasted =>
        /\ DaysToNegativeIsFirstBelowZero
        /\ LET u == forecast_dict.unit
               m == Val(forecast_dict.metrics.min_balance)
           IN  /\ 2 * Abs(u * m - LeastBalance) <= u
               /\ (2 * Abs(u * m - LeastBalance) = u => m % 2 = 0)
        /\ FiftyADayExample

\* the spec's example over MaxHorizon days: balances 50.00, 0.00, -50.00, so
\* days_to_negative is 2 although the balance is 0 on the day before
C6_Witness ==
    /\ Forecasted
    /\ starting_balance = 10000
    /\ horizon_days = MaxHorizon
    /\ forecast_dict.forecast_df[2].predicted_balance = 0
    /\ forecast_dict.forecast_df[3].predicted_balance = -5000 * forecast_dict.unit
    /\ forecast_dict.metrics.days_to_negative = Some(2)
    /\ forecast_dict.metrics.min_balance = Some(10000 - 5000 * MaxHorizon)
    /\ \A k \in ForecastRows : forecast_dict.forecast_df[k].predicted_net = -5000

\* the one scheduled item of the recurring table
RentItem == MonthlyRows(scenario_recurring_df)[1]

\* the recurring table holds one scheduled item, and its description contains
\* RENT in some case (RENT itself, or Parent Co)
OnlyRentScheduled ==
    /\ scenario_recurring_df # <<>>
    /\ Len(MonthlyRows(scenario_recurring_df)) = 1
    /\ IsText(RentItem.description)
    /\ \E i \in 1..Len(RentItem.description.chars) :
          \A j \in 1..4 :
              /\ i + j - 1 <= Len(RentItem.description.chars)
              /\ RentItem.description.chars[i + j - 1]
                    \in <<{"R", "r"}, {"E", "e"}, {"N", "n"}, {"T", "t"}>>[j]

\* every dated transaction of the history with the item's description is on
\* the 1st of a month, or there is none: the day of month of the item is 1
RentDueOnTheFirst ==
    \A i \in 1..Len(df) :
        (df[i].description = RentItem.description /\ IsPresent(df[i].date))
            => DayOfMonth(Val(df[i].date)) = 1

\* C8: with a rent delay of 5 days, a RENT item due on day 1 adds its amount
\* to the recurring adjustment of every forecast date that is day 6 of a
\* month, and adds nothing on day 1 or any other date.
C8_RentDelayLandsOnDaySix ==
    (Forecasted /\ delay_rent_days = 5 /\ OnlyRentScheduled /\ RentDueOnTheFirst)
    => /\ Len(recurring_adj) = horizon_days
       /\ \A k \in ForecastRows :
             recurring_adj[k] =
                 IF DayOfMonth(forecast_dict.forecast_df[k].date) = 6
                 THEN RentItem.avg_amount
                 ELSE 0

\* a forecast that covers a 1st and a 6th of a month, with RENT in the
\* history on the 1st: the rent is on the 6th and the 1st carries nothing
C8_Witness ==
    /\ Forecasted /\ delay_rent_days = 5 /\ OnlyRentScheduled /\ RentDueOnTheFirst
    /\ RentItem.description = RENT
    /\ \E i \in 1..Len(df) : df[i].description = RENT /\ IsPresent(df[i].date)
    /\ \E k \in ForecastRows :
          /\ DayOfMonth(forecast_dict.forecast_df[k].date) = 6
          /\ recurring_adj[k] = -120000
    /\ \E k \in ForecastRows :
          /\ DayOfMonth(forecast_dict.forecast_df[k].date) = 1
          /\ recurring_adj[k] = 0

\* C9: for an empty transaction table the forecast has no rows, its current
\* balance is the starting balance as given, and both risk metrics are absent;
\* nothing is raised.
C9_EmptyInput ==
    (pc = "done" /\ df = <<>>)
    => /\ forecast_dict.raised = ""
       /\ forecast_dict.forecast_df = <<>>
       /\ forecast_dict.current_balance = starting_balance
       /\ forecast_dict.metrics.min_balance = Missing
       /\ forecast_dict.metrics.days_to_negative = Missing

\* an empty history forecast from 100.00 with recurring items to schedule
C9_Witness ==
    /\ pc = "done" /\ df = <<>>
    /\ starting_balance = 10000
    /\ horizon_days = MaxHorizon
    /\ scenario_recurring_df # <<>>
    /\ forecast_dict.current_balance = 10000
    /\ forecast_dict.forecast_df = <<>>
    /\ forecast_dict.metrics.days_to_negative = Missing

\* the rows of the recurring table that are scheduled
Scheduled == MonthlyRows(scenario_recurring_df)

\* the description, as text, has the upper-case word in it in some case
Mentions(desc, word) ==
    \E i \in 1..Len(Str(desc)) :
        \A j \in 1..Len(word) :
            /\ i + j - 1 <= Len(Str(desc))
            /\ UpperChar(Str(desc)[i + j - 1]) = word[j]

\* the scenario shifts that apply to a description
RentShift(desc) == IF Mentions(desc, RENT_WORD) THEN delay_rent_days ELSE 0

InvoiceShift(desc) == IF Mentions(desc, INVOICE_WORD) THEN invoice_earlier_days ELSE 0

NoShiftApplies ==
    \A r \in 1..Len(Scheduled) :
        RentShift(Scheduled[r].description) = 0
        /\ InvoiceShift(Scheduled[r].description) = 0

\* the representative day of month of a scheduled row
RepresentativeDay(r) == DomOf(df, Scheduled[r].description)

\* the last valid day of the month of date o
LastDayOfMonth(o) == DaysInMonth(YMD(o).year, YMD(o).month)

\* date o is the day a row with representative day dom falls on in o's month
IsClampedDay(o, dom) ==
    DayOfMonth(o) = (IF dom > LastDayOfMonth(o) THEN LastDayOfMonth(o) ELSE dom)

\* C11: with no scenario shift applying, the recurring adjustment of every
\* forecast date is the sum of the avg_amount of the scheduled rows whose
\* representative day of month, clamped to the last day of that date's month,
\* is that date's day; a day of 29-31 lands on the last day of a shorter month.
C11_ClampedMonthlyPlacement ==
    (Forecasted /\ NoShiftApplies)
    => /\ Len(recurring_adj) = horizon_days
       /\ \A k \in ForecastRows :
             recurring_adj[k] =
                 SeqSum([r \in 1..Len(Scheduled) |->
                           IF IsClampedDay(forecast_dict.forecast_df[k].date,
                                           RepresentativeDay(r))
                           THEN Scheduled[r].avg_amount ELSE 0])

\* rent paid on a 31st falls on the last day of a shorter month of the
\* forecast, and on none of the first days of the month after it
C11_Witness ==
    /\ Forecasted /\ NoShiftApplies
    /\ Len(Scheduled) = 1
    /\ RepresentativeDay(1) = 31
    /\ \E k \in ForecastRows :
          LET o == forecast_dict.forecast_df[k].date
          IN  /\ LastDayOfMonth(o) < 31
              /\ DayOfMonth(o) = LastDayOfMonth(o)
              /\ recurring_adj[k] = Scheduled[1].avg_amount
              /\ k + 3 \in ForecastRows
              /\ \A j \in 1..3 : recurring_adj[k + j] = 0

\* two scheduled rows fall on the same forecast date and their amounts add up
C11_SummedWitness ==
    /\ Forecasted /\ NoShiftApplies
    /\ Len(Scheduled) = 2
    /\ \E k \in ForecastRows :
          recurring_adj[k] = Scheduled[1].avg_amount + Scheduled[2].avg_amount

\* the months from that of the first forecast day to that of the last
FirstMonth == MonthPeriod(forecast_dict.forecast_df[1].date)

LastMonth == MonthPeriod(forecast_dict.forecast_df[Len(forecast_dict.forecast_df)].date)

\* the rows of the recurring table that the frequency field lets through:
\* those marked Monthly, or every row when the table has no such field
MonthlyMarked ==
    LET IsMonthly(row) == row.frequency = "Monthly"
    IN  IF \E r \in 1..Len(scenario_recurring_df) :
              scenario_recurring_df[r].frequency = NoColumn
        THEN scenario_recurring_df
        ELSE SelectSeq(scenario_recurring_df, IsMonthly)

\* the days of month of the dated transactions with a description
HistoryDays(desc) ==
    LET Dated(row) == row.description = desc /\ IsPresent(row.date)
        rows == SelectSeq(df, Dated)
    IN  [i \in 1..Len(rows) |-> DayOfMonth(Val(rows[i].date))]

\* twice the median day of month of a description's transactions, twice day 1
\* when no transaction has the description
MedianDay2(desc) ==
    IF \A i \in 1..Len(df) : df[i].description # desc THEN 2 * DefaultDom
    ELSE Median2(HistoryDays(desc))

\* twice that median cut down to a whole day
TruncatedDay2(desc) == 2 * (MedianDay2(desc) \div 2)

\* an unshifted date is where a row lands in its month: the month is one of
\* months and the day is the row's day (given doubled) clamped to the month's
\* last day
IsOccurrence(unshifted, day2, months) ==
    LET ymd   == YMD(unshifted)
        last2 == 2 * DaysInMonth(ymd.year, ymd.month)
    IN  /\ ymd.year * 12 + (ymd.month - 1) \in months
        /\ 2 * ymd.day = (IF day2 > last2 THEN last2 ELSE day2)

\* what the rows add on each forecast date when every month from FirstMonth
\* to LastMonth yields one occurrence per row, on the day Day2 gives its
\* description, moved by the shifts that apply to it
ExpectedAdj(rows, Day2(_)) ==
    LET day2  == AsSeq([r \in 1..Len(rows) |-> Day2(rows[r].description)])
        shift == AsSeq([r \in 1..Len(rows) |->
                          RentShift(rows[r].description)
                          - InvoiceShift(rows[r].description)])
        months == FirstMonth..LastMonth
    IN  AsSeq([k \in ForecastRows |->
                 SeqSum([r \in 1..Len(rows) |->
                           LET unshifted == forecast_dict.forecast_df[k].date - shift[r]
                           IN  IF unshifted >= 0 /\ IsOccurrence(unshifted, day2[r], months)
                               THEN rows[r].avg_amount ELSE 0])])

\* C13: only the rows marked Monthly (every row of a table without a frequency
\* field) add to the recurring adjustment, each on the median day of month of
\* the transactions with its description, on day 1 when there are none; rows
\* without a date are left out of the history.
C13_MonthlyFilterAndMedianDay ==
    (pc = "done" /\ \E i \in 1..Len(df) : IsPresent(df[i].date))
    => /\ forecast_dict.raised = ""
       /\ recurring_adj = ExpectedAdj(MonthlyMarked, MedianDay2)

\* a history whose only RENT row has no date, forecast with RENT scheduled
C13_UndatedHistoryRaises ==
    /\ pc = "done"
    /\ \E i \in 1..Len(df) : IsPresent(df[i].date)
    /\ \E i \in 1..Len(df) : df[i].description = RENT
    /\ \A i \in 1..Len(df) : df[i].description = RENT => ~IsPresent(df[i].date)
    /\ forecast_dict.raised = "ValueError"

\* C14: every scheduled row yields one occurrence for each month from that of
\* the first forecast day to that of the last, moved forward by the rent delay
\* and back by the invoice advance that apply to it, and adds its amount on
\* that date if and only if it is a forecast date; occurrences of other months
\* are never placed, so a row adds at most its amount times the number of
\* those months.
C14_ShiftsMoveOrDrop ==
    Forecasted =>
        /\ recurring_adj = ExpectedAdj(MonthlyMarked, TruncatedDay2)
        /\ Len(MonthlyMarked) = 1 =>
              /\ \A k \in ForecastRows :
                    recurring_adj[k] \in {0, MonthlyMarked[1].avg_amount}
              /\ Abs(SeqSum(recurring_adj))
                    <= Abs(MonthlyMarked[1].avg_amount) * (LastMonth - FirstMonth + 1)

\* rent of the 31st delayed by 5 days, forecast from 1 February: the January
\* occurrence would land on 5 February and is not placed, the February one
\* lands on 5 March
C14_Witness ==
    /\ Forecasted
    /\ delay_rent_days = 5
    /\ Len(MonthlyMarked) = 1
    /\ MonthlyMarked[1].description = RENT
    /\ TruncatedDay2(RENT) = 2 * 31
    /\ forecast_dict.forecast_df[1].date = Timestamp(EpochYear, 2, 1)
    /\ horizon_days = MaxHorizon
    /\ recurring_adj[5] = 0
    /\ \E k \in ForecastRows :
          /\ forecast_dict.forecast_df[k].date = Timestamp(EpochYear, 3, 5)
          /\ recurring_adj[k] = MonthlyMarked[1].avg_amount
    /\ SeqSum(recurring_adj) = MonthlyMarked[1].avg_amount

\* an invoice of the 1st paid 3 days earlier, forecast from 1 to 28 February:
\* the February occurrence falls before the forecast and the March one, which
\* would land on 26 February, is not placed
C14_InvoiceWitness ==
    /\ Forecasted
    /\ invoice_earlier_days = 3
    /\ Len(MonthlyMarked) = 1
    /\ MonthlyMarked[1].description = INVOICE_ACME
    /\ forecast_dict.forecast_df[1].date = Timestamp(EpochYear, 2, 1)
    /\ forecast_dict.forecast_df[horizon_days].date = Timestamp(EpochYear, 2, 28)
    /\ \A k \in ForecastRows : recurring_adj[k] = 0

====
